---- MODULE Spec2Model ----
(***************************************************************************)
(* Model of HandCrossingCounter (src/hand_crossing_counter.py): the        *)
(* per-frame crossing detector, the position history, the 60-second rate   *)
(* estimator, reset_counter and save_results.                              *)
(*                                                                         *)
(* Units.  Time is counted in ticks of 0.05 s, the value of                *)
(* crossing_cooldown, so that "equal to the cooldown" is one tick and the  *)
(* 60.0 s window is 1200 ticks.  Vertical positions are counted in units   *)
(* of 0.01, the value of min_crossing_distance.  Arithmetic is exact; the  *)
(* rate, a float in the code, is an exact fraction [num, den] in lowest    *)
(* terms.                                                                  *)
(*                                                                         *)
(* The two ranking services (src/api/app.py, backed by SQLite and the JSON *)
(* file the counter writes; src/api/api/index.py, backed by a list in      *)
(* memory) are modelled by the same module with variables of their own.    *)
(***************************************************************************)
EXTENDS Integers, Sequences, FiniteSets

VARIABLES
    crossing_count,      \* self.crossing_count
    left_hand_y,         \* self.left_hand_y      (None when not visible)
    right_hand_y,        \* self.right_hand_y
    previous_left_y,     \* self.previous_left_y
    previous_right_y,    \* self.previous_right_y
    last_crossing_time,  \* self.last_crossing_time
    start_time,          \* self.start_time
    count_timestamps,    \* self.count_timestamps
    hand_history,        \* self.hand_history: [left |-> seq, right |-> seq]
    now,                 \* the last value read from time.time()
    crossing_detected,   \* run(): the value detect_crossing returned last
    counts_per_minute,   \* draw_ui()/save_results(): the value the rate call returned last
    accepted,            \* history: timestamps of the events accepted in this session
    lastOp,              \* history: the operation that produced this state
    prevOp,              \* history: the operation before it
    ops,                 \* history: number of operations performed
    suppressed           \* history: the order of the hands in a crossing that the cooldown
                         \* suppressed and that every frame since has kept (0: none)

VARIABLES
    db_sessions,         \* app.py: the rows of table sessions of rankings.db, in insertion order
    json_file,           \* app.py: the content of ../crossing_results.json (NoFile when absent)
    data_store,          \* index.py: the global list data_store
    response,            \* the response to the last request, with the request it answers
    app_accepted,        \* history: the sessions app.py answered with 201
    index_accepted,      \* history: the sessions index.py answered with 201
    requests             \* history: number of requests served and file writes made

\* The state of the ranking services.
apiVars == <<db_sessions, json_file, data_store, response, app_accepted,
             index_accepted, requests>>

\* The state of the counter.
counterVars == <<crossing_count, left_hand_y, right_hand_y, previous_left_y,
                 previous_right_y, last_crossing_time, start_time, count_timestamps,
                 hand_history, now, crossing_detected, counts_per_minute, accepted,
                 lastOp, prevOp, ops, suppressed>>

vars == <<crossing_count, left_hand_y, right_hand_y, previous_left_y,
          previous_right_y, last_crossing_time, start_time, count_timestamps,
          hand_history, now, crossing_detected, counts_per_minute, accepted,
          lastOp, prevOp, ops, suppressed, db_sessions, json_file, data_store,
          response, app_accepted, index_accepted, requests>>

\* The fields of the HandCrossingCounter object (no history variables).
objectState == <<crossing_count, left_hand_y, right_hand_y, previous_left_y,
                 previous_right_y, last_crossing_time, start_time,
                 count_timestamps, hand_history>>

(***************************************************************************)
(* Bounds of the model                                                     *)
(***************************************************************************)
MaxOps == 3
StartClock == 2000

(***************************************************************************)
(* Program constants                                                       *)
(***************************************************************************)
None == -1
crossing_cooldown == 1
min_crossing_distance == 1
history_length == 2
TicksPerSecond == 20
WindowSeconds == 60
Window == WindowSeconds * TicksPerSecond

\* Positions in units of min_crossing_distance: two hands can be level, exactly
\* the minimum distance apart, or further apart, in either order.
FarY == 2 * min_crossing_distance
YValues == 0..FarY
Positions == YValues \cup {None}

\* Increments of the clock between two readings of time.time(): none, exactly
\* the cooldown, just above it; and, for a long pause, 15 s and one tick short
\* of the 60 s window.
ShortSteps == {0, crossing_cooldown, crossing_cooldown + 1}
LongSteps == {15 * TicksPerSecond, Window - 1}
TimeSteps == ShortSteps \cup LongSteps

\* What the tracker reports in a frame that follows a long pause: no hand, or
\* the two hands far apart in either order.
PausePositions == {<<None, None>>, <<0, FarY>>, <<FarY, 0>>}

\* The inputs of one frame: <<left_y, right_y, clock increment>>.
FrameInputs ==
    {<<l, r, d>> : l \in Positions, r \in Positions, d \in ShortSteps}
    \cup {<<p[1], p[2], d>> : p \in PausePositions, d \in LongSteps}

Abs(x) == IF x < 0 THEN -x ELSE x

RECURSIVE GCD(_, _)
GCD(a, b) == IF b = 0 THEN a ELSE GCD(b, a % b)

\* The float n / d as an exact fraction in lowest terms, the sign carried by
\* the numerator; a division by zero shows as den = 0.
Fraction(n, d) ==
    LET g == GCD(Abs(n), Abs(d))
        sign == IF d < 0 THEN -1 ELSE 1
    IN [num |-> (sign * n) \div g, den |-> (sign * d) \div g]

Zero == [num |-> 0, den |-> 1]

(***************************************************************************)
(* update_hand_history                                                     *)
(***************************************************************************)

\* Variant: the newest entry is popped instead of the oldest.
UpdateBufferDropsNewest(buf, y) ==
    IF y # None
    THEN LET grown == Append(buf, y)
         IN IF Len(grown) > history_length
            THEN SubSeq(grown, 1, Len(grown) - 1)
            ELSE grown
    ELSE buf

\* One hand's buffer after a reading y: appended unless absent, the oldest
\* entry popped when the buffer grew beyond history_length.
UpdateBuffer(buf, y) ==
    IF y # None
    THEN LET grown == Append(buf, y)
         IN IF Len(grown) > history_length THEN Tail(grown) ELSE grown
    ELSE buf

UpdateHandHistory(h, left_y, right_y) ==
    [left |-> UpdateBuffer(h.left, left_y), right |-> UpdateBuffer(h.right, right_y)]

(***************************************************************************)
(* get_counts_per_minute                                                   *)
(***************************************************************************)

\* Variant: the pruning filter with a window of half the length.
PruneTimestampsHalfWindow(stamps, current_time) ==
    LET cutoff_time == current_time - (Window \div 2)
        Recent(t) == t > cutoff_time
    IN SelectSeq(stamps, Recent)

\* Variant: the pruning filter written with >= instead of >.
PruneTimestampsInclusive(stamps, current_time) ==
    LET cutoff_time == current_time - Window
        Recent(t) == t >= cutoff_time
    IN SelectSeq(stamps, Recent)

\* self.count_timestamps = [t for t in self.count_timestamps if t > cutoff_time]
PruneTimestamps(stamps, current_time) ==
    LET cutoff_time == current_time - Window
        Recent(t) == t > cutoff_time
    IN SelectSeq(stamps, Recent)

\* Variant: the warm-up rate without the factor 60.0 (events per second).
RateOfWindowPerSecond(stamps, current_time, start) ==
    LET elapsed_time == current_time - start
    IN IF Len(stamps) = 0 THEN Zero
       ELSE IF elapsed_time < Window
            THEN IF elapsed_time > 0
                 THEN Fraction(Len(stamps) * TicksPerSecond, elapsed_time)
                 ELSE Zero
            ELSE Fraction(Len(stamps), 1)

\* Variant: the warm-up rate without the guard elapsed_time > 0.
RateOfWindowUnguarded(stamps, current_time, start) ==
    LET elapsed_time == current_time - start
    IN IF Len(stamps) = 0 THEN Zero
       ELSE IF elapsed_time < Window
            THEN Fraction(Len(stamps) * WindowSeconds * TicksPerSecond, elapsed_time)
            ELSE Fraction(Len(stamps), 1)

\* The value returned, given the pruned window.
RateOfWindow(stamps, current_time, start) ==
    LET elapsed_time == current_time - start
    IN IF Len(stamps) = 0 THEN Zero
       ELSE IF elapsed_time < Window
            THEN IF elapsed_time > 0
                 THEN Fraction(Len(stamps) * WindowSeconds * TicksPerSecond, elapsed_time)
                 ELSE Zero
            ELSE Fraction(Len(stamps), 1)

GetCountsPerMinute(stamps, current_time, start) ==
    RateOfWindow(PruneTimestamps(stamps, current_time), current_time, start)

(***************************************************************************)
(* detect_crossing                                                         *)
(***************************************************************************)
\* Variant: the separation guard written with >= instead of >.
SufficientSeparationInclusive(left_y, right_y) ==
    Abs(left_y - right_y) >= min_crossing_distance

\* y_distance > self.min_crossing_distance
SufficientSeparation(left_y, right_y) ==
    Abs(left_y - right_y) > min_crossing_distance


\* Variant: no cooldown guard.
CooldownIgnored(current_time, last) == TRUE

\* Variant: the cooldown guard written with >= instead of >.
CooldownPassedInclusive(current_time, last) ==
    (current_time - last) >= crossing_cooldown

\* (current_time - self.last_crossing_time) > self.crossing_cooldown
CooldownPassed(current_time, last) ==
    (current_time - last) > crossing_cooldown



\* Variant: the previous positions are not consulted.
HandFellBelowIgnoresPrevious(left_y, right_y, prev_left, prev_right) ==
    \/ left_y > right_y
    \/ right_y > left_y

\* Variant: a hand counts as fallen only if it was strictly above before.
HandFellBelowStrict(left_y, right_y, prev_left, prev_right) ==
    IF prev_left # None /\ prev_right # None
    THEN \/ (left_y > right_y /\ prev_left < prev_right)
         \/ (right_y > left_y /\ prev_right < prev_left)
    ELSE \/ left_y > right_y
         \/ right_y > left_y

\* Variant: no event without previous positions.
HandFellBelowNoBootstrap(left_y, right_y, prev_left, prev_right) ==
    /\ prev_left # None
    /\ prev_right # None
    /\ \/ (left_y > right_y /\ prev_left <= prev_right)
       \/ (right_y > left_y /\ prev_right <= prev_left)


\* Variant: an event only on a strict exchange of order between two frames
\* that both show both hands (a symmetric crossing detector).
HandFellBelowSymmetric(left_y, right_y, prev_left, prev_right) ==
    /\ prev_left # None
    /\ prev_right # None
    /\ \/ (left_y > right_y /\ prev_left < prev_right)
       \/ (right_y > left_y /\ prev_right < prev_left)

\* hand_fell_below, from the current and the previous positions.
HandFellBelow(left_y, right_y, prev_left, prev_right) ==
    IF prev_left # None /\ prev_right # None
    THEN \/ (left_y > right_y /\ prev_left <= prev_right)
         \/ (right_y > left_y /\ prev_right <= prev_left)
    ELSE \/ left_y > right_y
         \/ right_y > left_y


\* Variant: only the left hand is tested for absence.
DetectCrossingLeftOnly(left_y, right_y, prev_left, prev_right, current_time, last) ==
    /\ left_y # None
    /\ SufficientSeparation(left_y, right_y)
    /\ CooldownPassed(current_time, last)
    /\ HandFellBelow(left_y, right_y, prev_left, prev_right)

\* The value detect_crossing returns.
DetectCrossing(left_y, right_y, prev_left, prev_right, current_time, last) ==
    /\ left_y # None
    /\ right_y # None
    /\ SufficientSeparation(left_y, right_y)
    /\ CooldownPassed(current_time, last)
    /\ HandFellBelow(left_y, right_y, prev_left, prev_right)


\* The order of two visible hands: 1 left below right (left_y > right_y),
\* -1 right below left, 0 level.
StrictOrder(left_y, right_y) ==
    IF left_y > right_y THEN 1 ELSE IF right_y > left_y THEN -1 ELSE 0

\* History kept for the frames after a suppressed crossing: a frame that
\* shows a fall at sufficient separation within the cooldown records the new
\* order; a later frame keeps the record while it shows both hands in that
\* order, and any other frame drops it.
SuppressedOrder(held, left_y, right_y, prev_left, prev_right, current_time, last) ==
    IF left_y = None \/ right_y = None THEN 0
    ELSE IF /\ SufficientSeparation(left_y, right_y)
            /\ HandFellBelow(left_y, right_y, prev_left, prev_right)
            /\ ~CooldownPassed(current_time, last)
         THEN StrictOrder(left_y, right_y)
    ELSE IF held # 0 /\ StrictOrder(left_y, right_y) = held THEN held
    ELSE 0

\* Variant: an accepted event counted twice.
CountEventTwice(count) == count + 2

\* self.crossing_count += 1
CountEvent(count) == count + 1

\* Variant: an accepted event replaces the recorded timestamps.
RecordEventAlone(stamps, current_time) == <<current_time>>

\* Variant: the timestamp inserted at the front of the list.
RecordEventAtFront(stamps, current_time) == <<current_time>> \o stamps

\* self.count_timestamps.append(current_time)
RecordEvent(stamps, current_time) == Append(stamps, current_time)


(***************************************************************************)
(* The ranking services: what they store                                   *)
(***************************************************************************)
\* json_file when ../crossing_results.json does not exist.
NoFile == [exists |-> FALSE, sessions |-> <<>>]


\* Bound of the model: requests served and file writes made.
MaxRequests == 4

\* Rates and durations are counted in tenths (165.2 is 1652); a timestamp
\* 'YYYY-MM-DD HH:MM:SS' of 2025-09-08 is the number HHMMSS, which keeps the
\* order of the strings.
Session(username, timestamp, total_crossings, rate, duration) ==
    [username |-> username, timestamp |-> timestamp,
     total_crossings |-> total_crossings, counts_per_minute |-> rate,
     session_duration_seconds |-> duration]

\* The ten sessions load_actual_data puts into an empty data_store.
SeedSessions ==
    << Session("ural",  101323, 37, 1652, 134),
       Session("isaac", 121340, 81,  670, 742),
       Session("sibi",  130019, 58, 1190, 293),
       Session("arham", 130833, 61, 2028, 181),
       Session("arnav", 100009, 21, 1073, 117),
       Session("arnav", 100736, 18,  994, 109),
       Session("ural",  101328, 37, 1241, 179),
       Session("arav",  103145, 23,  970, 142),
       Session("sid",   105138,  3,  161, 112),
       Session("aiden", 105158,  6,  476,  76) >>

\* required_fields of submit_session, in the order they are tested.
required_fields ==
    <<"username", "total_crossings", "counts_per_minute", "session_duration_seconds">>

RequiredFieldSet == {required_fields[i] : i \in DOMAIN required_fields}

\* A username sent as JSON null.
NullName == "<null>"

\* datetime.now() of the server while it answers its n-th request, as HHMMSS.
ServerStart == 200000
ServerNow(n) == ServerStart + n

\* The parsed body of a POST: JSON null, or a JSON object with the keys
\* `keys` (the values of keys it does not have are never read).
NullBody ==
    [kind |-> "null", keys |-> {}, username |-> NullName, timestamp |-> 0,
     total_crossings |-> 0, counts_per_minute |-> 0, session_duration_seconds |-> 0]

ObjectBody(keys, username, rate) ==
    [kind |-> "object", keys |-> keys, username |-> username, timestamp |-> 190000,
     total_crossings |-> 40, counts_per_minute |-> rate,
     session_duration_seconds |-> 100]

\* The bodies a client posts: null; objects lacking one or all of the
\* required fields; complete objects for a user of the seed data, for a new
\* user and with a null username; a complete object with its own timestamp.
Bodies ==
    {NullBody}
    \cup {ObjectBody(RequiredFieldSet \ {f}, "zed", 500) : f \in RequiredFieldSet}
    \cup {ObjectBody({}, "zed", 500)}
    \cup {ObjectBody(RequiredFieldSet, "ural", 3000),
          ObjectBody(RequiredFieldSet, "zed", 500),
          ObjectBody(RequiredFieldSet, NullName, 500),
          ObjectBody(RequiredFieldSet \cup {"timestamp"}, "zed", 700)}

\* The first of required_fields the body lacks (0: none), as the loop
\* `for field in required_fields: if field not in data` finds it.
MissingField(body) ==
    LET lacking == {i \in DOMAIN required_fields : required_fields[i] \notin body.keys}
    IN IF lacking = {} THEN 0
       ELSE CHOOSE i \in lacking : \A j \in lacking : i <= j

\* The session a complete body describes: data.get('timestamp', now).
SessionOf(body, n) ==
    Session(body.username,
            IF "timestamp" \in body.keys THEN body.timestamp ELSE ServerNow(n),
            body.total_crossings, body.counts_per_minute,
            body.session_duration_seconds)

\* The status of POST /api/submit of app.py: `field not in None` raises
\* TypeError (500); a missing field is 400; the INSERT of a null username
\* fails on the NOT NULL constraint (500); otherwise 201.
AppSubmitStatus(body) ==
    IF body.kind = "null" THEN 500
    ELSE IF MissingField(body) # 0 THEN 400
    ELSE IF body.username = NullName THEN 500
    ELSE 201

\* The status of POST /api/submit of index.py: as app.py, without a table
\* constraint.
IndexSubmitStatus(body) ==
    IF body.kind = "null" THEN 500
    ELSE IF MissingField(body) # 0 THEN 400
    ELSE 201


(***************************************************************************)
(* The ranking services: what a read computes from the stored sessions     *)
(* (avg_rate, which needs the rounding of a float, is left out of the      *)
(* modelled responses, and so is the order of the rows of a response)      *)
(***************************************************************************)
Max(S) == CHOOSE x \in S : \A y \in S : x >= y

UsersOf(rows) == {rows[i].username : i \in DOMAIN rows}

SessionsOf(rows, username) ==
    LET OfUser(s) == s.username = username
    IN SelectSeq(rows, OfUser)

\* A sequence as the multiset of its elements.
BagOf(rows) ==
    [s \in {rows[i] : i \in DOMAIN rows} |->
        Cardinality({i \in DOMAIN rows : rows[i] = s})]

\* GROUP BY username of app.py: MAX(counts_per_minute), MAX(total_crossings),
\* COUNT(*).
AppRankingRow(rows, username) ==
    LET mine == SessionsOf(rows, username)
    IN [username |-> username,
        best_rate |-> Max({mine[i].counts_per_minute : i \in DOMAIN mine}),
        best_crossings |-> Max({mine[i].total_crossings : i \in DOMAIN mine}),
        total_sessions |-> Len(mine)]

\* LIMIT 50 of app.py.
RankingsLimit == 50

\* ORDER BY best_rate DESC LIMIT 50: the rows with fewer than 50 better rows.
AppRankings(rows) ==
    LET all == {AppRankingRow(rows, u) : u \in UsersOf(rows)}
    IN {r \in all :
          Cardinality({q \in all : q.best_rate > r.best_rate}) < RankingsLimit}

\* user_stats of index.py: best_rate and best_crossings start at 0.
IndexRankingRow(rows, username) ==
    LET mine == SessionsOf(rows, username)
    IN [username |-> username,
        best_rate |-> Max({0} \cup {mine[i].counts_per_minute : i \in DOMAIN mine}),
        best_crossings |-> Max({0} \cup {mine[i].total_crossings : i \in DOMAIN mine}),
        total_sessions |-> Len(mine)]

IndexRankings(rows) == {IndexRankingRow(rows, u) : u \in UsersOf(rows)}

RankingsResponse(api, rankings) ==
    [api |-> api, endpoint |-> "rankings", status |-> 200,
     rankings |-> rankings, total_users |-> Cardinality(rankings)]

\* get_user_stats: 404 without a session of the user, else the user's
\* sessions and their statistics.  app.py returns the sessions ordered by
\* timestamp (a multiset here), index.py in the order of data_store.
UserStatsResponse(api, rows, username) ==
    LET mine == SessionsOf(rows, username)
    IN IF mine = <<>>
       THEN [api |-> api, endpoint |-> "user", username |-> username, status |-> 404]
       ELSE [api |-> api, endpoint |-> "user", username |-> username, status |-> 200,
             best_rate |-> Max({mine[i].counts_per_minute : i \in DOMAIN mine}),
             best_crossings |-> Max({mine[i].total_crossings : i \in DOMAIN mine}),
             total_sessions |-> Len(mine),
             sessions |-> IF api = "app" THEN BagOf(mine) ELSE mine]

\* get_global_stats: zeros for an empty store.
GlobalStatsResponse(api, rows) ==
    [api |-> api, endpoint |-> "stats", status |-> 200,
     total_sessions |-> Len(rows),
     total_users |-> Cardinality(UsersOf(rows)),
     global_best_rate |->
        IF rows = <<>> THEN 0 ELSE Max({rows[i].counts_per_minute : i \in DOMAIN rows}),
     global_best_crossings |->
        IF rows = <<>> THEN 0 ELSE Max({rows[i].total_crossings : i \in DOMAIN rows})]

SubmitResponse(api, body, status) ==
    [api |-> api, endpoint |-> "submit", status |-> status, request |-> body,
     missing |-> IF status = 400 THEN required_fields[MissingField(body)] ELSE ""]

\* No request has been answered yet.
NoResponse == [api |-> "none", endpoint |-> "none"]

\* The services after start-up: init_database has created an empty table,
\* the module-level data_store is the empty list.
InitApi ==
    /\ db_sessions = <<>>
    /\ json_file = NoFile
    /\ data_store = <<>>
    /\ response = NoResponse
    /\ app_accepted = <<>>
    /\ index_accepted = <<>>
    /\ requests = 0

(***************************************************************************)
(* The object after __init__                                               *)
(***************************************************************************)
InitAt(clock) ==
    /\ crossing_count = 0
    /\ left_hand_y = None
    /\ right_hand_y = None
    /\ previous_left_y = None
    /\ previous_right_y = None
    /\ last_crossing_time = 0
    /\ now = clock
    /\ start_time = clock
    /\ count_timestamps = <<>>
    /\ hand_history = [left |-> <<>>, right |-> <<>>]
    /\ crossing_detected = FALSE
    /\ counts_per_minute = Zero
    /\ accepted = <<>>
    /\ lastOp = "init"
    /\ prevOp = "init"
    /\ ops = 0
    /\ suppressed = 0
    /\ InitApi

\* The object constructed at the wall-clock time StartClock.
Init == InitAt(StartClock)


\* Variant: the previous positions are those of the last accepted event, so a
\* suppressed crossing is compared again in the next frame.
FrameDefersSuppressed(left_y, right_y, d) ==
    LET current_time == now + d
        detected == DetectCrossing(left_y, right_y, previous_left_y, previous_right_y,
                                   current_time, last_crossing_time)
        stamps == IF detected THEN RecordEvent(count_timestamps, current_time)
                              ELSE count_timestamps
    IN /\ ops < MaxOps
       /\ now' = current_time
       /\ previous_left_y' = IF detected THEN left_y ELSE previous_left_y
       /\ previous_right_y' = IF detected THEN right_y ELSE previous_right_y
       /\ left_hand_y' = left_y
       /\ right_hand_y' = right_y
       /\ hand_history' = UpdateHandHistory(hand_history, left_y, right_y)
       /\ crossing_detected' = detected
       /\ crossing_count' = IF detected THEN CountEvent(crossing_count)
                                        ELSE crossing_count
       /\ last_crossing_time' = IF detected THEN current_time ELSE last_crossing_time
       /\ accepted' = IF detected THEN Append(accepted, current_time) ELSE accepted
       /\ count_timestamps' = PruneTimestamps(stamps, current_time)
       /\ counts_per_minute' = GetCountsPerMinute(stamps, current_time, start_time)
       /\ UNCHANGED start_time
       /\ lastOp' = "frame"
       /\ prevOp' = lastOp
       /\ ops' = ops + 1
       /\ suppressed' = SuppressedOrder(suppressed, left_y, right_y, previous_left_y,
                                        previous_right_y, current_time, last_crossing_time)
       /\ UNCHANGED apiVars

\* Variant: the previous positions are only stored when an event is accepted.
FrameKeepsPreviousOnReject(left_y, right_y, d) ==
    LET current_time == now + d
        detected == DetectCrossing(left_y, right_y, left_hand_y, right_hand_y,
                                   current_time, last_crossing_time)
        stamps == IF detected THEN RecordEvent(count_timestamps, current_time)
                              ELSE count_timestamps
    IN /\ ops < MaxOps
       /\ now' = current_time
       /\ previous_left_y' = IF detected THEN left_hand_y ELSE previous_left_y
       /\ previous_right_y' = IF detected THEN right_hand_y ELSE previous_right_y
       /\ left_hand_y' = left_y
       /\ right_hand_y' = right_y
       /\ hand_history' = UpdateHandHistory(hand_history, left_y, right_y)
       /\ crossing_detected' = detected
       /\ crossing_count' = IF detected THEN CountEvent(crossing_count)
                                        ELSE crossing_count
       /\ last_crossing_time' = IF detected THEN current_time ELSE last_crossing_time
       /\ accepted' = IF detected THEN Append(accepted, current_time) ELSE accepted
       /\ count_timestamps' = PruneTimestamps(stamps, current_time)
       /\ counts_per_minute' = GetCountsPerMinute(stamps, current_time, start_time)
       /\ UNCHANGED start_time
       /\ lastOp' = "frame"
       /\ prevOp' = lastOp
       /\ ops' = ops + 1
       /\ suppressed' = SuppressedOrder(suppressed, left_y, right_y, left_hand_y,
                                        right_hand_y, current_time, last_crossing_time)
       /\ UNCHANGED apiVars

(***************************************************************************)
(* One iteration of the loop of run(): the tracker reports the hands at    *)
(* left_y and right_y, the clock has advanced by d.                        *)
(***************************************************************************)
Frame(left_y, right_y, d) ==
    LET current_time == now + d
        detected == DetectCrossing(left_y, right_y, left_hand_y, right_hand_y,
                                   current_time, last_crossing_time)
        stamps == IF detected THEN RecordEvent(count_timestamps, current_time)
                              ELSE count_timestamps
    IN /\ ops < MaxOps
       /\ now' = current_time
       /\ previous_left_y' = left_hand_y
       /\ previous_right_y' = right_hand_y
       /\ left_hand_y' = left_y
       /\ right_hand_y' = right_y
       /\ hand_history' = UpdateHandHistory(hand_history, left_y, right_y)
       /\ crossing_detected' = detected
       /\ crossing_count' = IF detected THEN CountEvent(crossing_count)
                                        ELSE crossing_count
       /\ last_crossing_time' = IF detected THEN current_time ELSE last_crossing_time
       /\ accepted' = IF detected THEN Append(accepted, current_time) ELSE accepted
       \* draw_ui: the rate is queried with the frame's current_time
       /\ count_timestamps' = PruneTimestamps(stamps, current_time)
       /\ counts_per_minute' = GetCountsPerMinute(stamps, current_time, start_time)
       /\ UNCHANGED start_time
       /\ lastOp' = "frame"
       /\ prevOp' = lastOp
       /\ ops' = ops + 1
       /\ suppressed' = SuppressedOrder(suppressed, left_y, right_y, left_hand_y,
                                        right_hand_y, current_time, last_crossing_time)
       /\ UNCHANGED apiVars

\* Variant of reset_counter that does not clear count_timestamps.
ResetCounterKeepsWindow(d) ==
    /\ ops < MaxOps
    /\ now' = now + d
    /\ crossing_count' = 0
    /\ last_crossing_time' = 0
    /\ start_time' = now + d
    /\ accepted' = <<>>
    /\ UNCHANGED <<count_timestamps, left_hand_y, right_hand_y, previous_left_y,
                   previous_right_y, hand_history, crossing_detected,
                   counts_per_minute>>
    /\ lastOp' = "reset"
    /\ prevOp' = lastOp
    /\ ops' = ops + 1
    /\ UNCHANGED suppressed
    /\ UNCHANGED apiVars

\* Variant of reset_counter that also clears the position history and the
\* current and previous positions.
ResetCounterClearsPositions(d) ==
    /\ ops < MaxOps
    /\ now' = now + d
    /\ crossing_count' = 0
    /\ last_crossing_time' = 0
    /\ start_time' = now + d
    /\ count_timestamps' = <<>>
    /\ accepted' = <<>>
    /\ hand_history' = [left |-> <<>>, right |-> <<>>]
    /\ left_hand_y' = None
    /\ right_hand_y' = None
    /\ previous_left_y' = None
    /\ previous_right_y' = None
    /\ UNCHANGED <<crossing_detected, counts_per_minute>>
    /\ lastOp' = "reset"
    /\ prevOp' = lastOp
    /\ ops' = ops + 1
    /\ UNCHANGED suppressed
    /\ UNCHANGED apiVars

(***************************************************************************)
(* reset_counter, the clock having advanced by d                           *)
(***************************************************************************)
ResetCounter(d) ==
    /\ ops < MaxOps
    /\ now' = now + d
    /\ crossing_count' = 0
    /\ last_crossing_time' = 0
    /\ start_time' = now + d
    /\ count_timestamps' = <<>>
    /\ accepted' = <<>>
    /\ UNCHANGED <<left_hand_y, right_hand_y, previous_left_y, previous_right_y,
                   hand_history, crossing_detected, counts_per_minute>>
    /\ lastOp' = "reset"
    /\ prevOp' = lastOp
    /\ ops' = ops + 1
    /\ UNCHANGED suppressed
    /\ UNCHANGED apiVars

\* Variant of save_results that also restarts the session clock.
SaveResultsRestartsSession(d) ==
    LET current_time == now + d
    IN /\ ops < MaxOps
       /\ now' = current_time
       /\ count_timestamps' = PruneTimestamps(count_timestamps, current_time)
       /\ counts_per_minute' = GetCountsPerMinute(count_timestamps, current_time, start_time)
       /\ start_time' = current_time
       /\ UNCHANGED <<crossing_count, left_hand_y, right_hand_y, previous_left_y,
                      previous_right_y, last_crossing_time,
                      hand_history, crossing_detected, accepted>>
       /\ lastOp' = "save"
       /\ prevOp' = lastOp
       /\ ops' = ops + 1
       /\ UNCHANGED suppressed
       /\ UNCHANGED apiVars

(***************************************************************************)
(* save_results, the clock having advanced by d: the rate is queried with  *)
(* a fresh reading of the clock (writing the record is not modelled).      *)
(***************************************************************************)
SaveResults(d) ==
    LET current_time == now + d
    IN /\ ops < MaxOps
       /\ now' = current_time
       /\ count_timestamps' = PruneTimestamps(count_timestamps, current_time)
       /\ counts_per_minute' = GetCountsPerMinute(count_timestamps, current_time, start_time)
       /\ UNCHANGED <<crossing_count, left_hand_y, right_hand_y, previous_left_y,
                      previous_right_y, last_crossing_time, start_time,
                      hand_history, crossing_detected, accepted>>
       /\ lastOp' = "save"
       /\ prevOp' = lastOp
       /\ ops' = ops + 1
       /\ UNCHANGED suppressed
       /\ UNCHANGED apiVars

Next ==
    \/ \E in \in FrameInputs : Frame(in[1], in[2], in[3])
    \/ \E d \in TimeSteps : ResetCounter(d)
    \/ \E d \in TimeSteps : SaveResults(d)

Spec == Init /\ [][Next]_vars

(***************************************************************************)
(* time.time() is the wall clock, which can be set back between two        *)
(* readings: the same operations with the clock stepping back as well.     *)
(***************************************************************************)
BackSteps == {-crossing_cooldown}

NextAnyClock ==
    \/ Next
    \/ \E p \in PausePositions, d \in BackSteps : Frame(p[1], p[2], d)
    \/ \E d \in BackSteps : ResetCounter(d)
    \/ \E d \in BackSteps : SaveResults(d)

SpecAnyClock == Init /\ [][NextAnyClock]_vars

\* The same program started while time.time() reads EarlyClock, a wall clock
\* set to the very beginning of its epoch.
EarlyClock == 0
InitEarlyClock == InitAt(EarlyClock)
SpecEarlyClock == InitEarlyClock /\ [][Next]_vars


(***************************************************************************)
(* The ranking services: requests                                          *)
(***************************************************************************)
\* sync_from_json: without the file the table is left alone; with it, every
\* row is deleted and the sessions of the file are inserted.
SyncFromJson(rows, file) == IF file.exists THEN file.sessions ELSE rows

\* Variant: the seed sessions are put in front of a store that lacks them.
LoadActualDataMerges(store) ==
    IF Len(store) >= Len(SeedSessions)
       /\ SubSeq(store, 1, Len(SeedSessions)) = SeedSessions
    THEN store
    ELSE SeedSessions \o store

\* load_actual_data: `if not data_store: data_store = [...]`.
LoadActualData(store) == IF store = <<>> THEN SeedSessions ELSE store

\* The usernames of GET /api/rankings/user/<username>.
QueryNames == {"ural", "zed"}

\* The users whose counter saves results into ../crossing_results.json.
FileUsers == {"ural"}

\* save_results of a counter run next to the service: the entry is appended
\* to the list in the file, which is created when it does not exist.
WriteResultsFile(username) ==
    /\ requests < MaxRequests
    /\ json_file' = [exists |-> TRUE,
                     sessions |-> Append(json_file.sessions,
                                         Session(username, ServerNow(requests), 12, 480, 150))]
    /\ requests' = requests + 1
    /\ UNCHANGED <<db_sessions, data_store, response, app_accepted, index_accepted>>
    /\ UNCHANGED counterVars

\* app.py, POST /api/submit
AppSubmitSession(body) ==
    LET status == AppSubmitStatus(body)
        session == SessionOf(body, requests)
    IN /\ requests < MaxRequests
       /\ db_sessions' = IF status = 201 THEN Append(db_sessions, session) ELSE db_sessions
       /\ app_accepted' = IF status = 201 THEN Append(app_accepted, session) ELSE app_accepted
       /\ response' = SubmitResponse("app", body, status)
       /\ requests' = requests + 1
       /\ UNCHANGED <<json_file, data_store, index_accepted>>
       /\ UNCHANGED counterVars

\* app.py, GET /api/rankings
AppGetRankings ==
    LET rows == SyncFromJson(db_sessions, json_file)
    IN /\ requests < MaxRequests
       /\ db_sessions' = rows
       /\ response' = RankingsResponse("app", AppRankings(rows))
       /\ requests' = requests + 1
       /\ UNCHANGED <<json_file, data_store, app_accepted, index_accepted>>
       /\ UNCHANGED counterVars

\* app.py, GET /api/rankings/user/<username>
AppGetUserStats(username) ==
    LET rows == SyncFromJson(db_sessions, json_file)
    IN /\ requests < MaxRequests
       /\ db_sessions' = rows
       /\ response' = UserStatsResponse("app", rows, username)
       /\ requests' = requests + 1
       /\ UNCHANGED <<json_file, data_store, app_accepted, index_accepted>>
       /\ UNCHANGED counterVars

\* app.py, GET /api/stats
AppGetGlobalStats ==
    LET rows == SyncFromJson(db_sessions, json_file)
    IN /\ requests < MaxRequests
       /\ db_sessions' = rows
       /\ response' = GlobalStatsResponse("app", rows)
       /\ requests' = requests + 1
       /\ UNCHANGED <<json_file, data_store, app_accepted, index_accepted>>
       /\ UNCHANGED counterVars

\* index.py, POST /api/submit
IndexSubmitSession(body) ==
    LET status == IndexSubmitStatus(body)
        session == SessionOf(body, requests)
    IN /\ requests < MaxRequests
       /\ data_store' = IF status = 201 THEN Append(data_store, session) ELSE data_store
       /\ index_accepted' = IF status = 201 THEN Append(index_accepted, session)
                                            ELSE index_accepted
       /\ response' = SubmitResponse("index", body, status)
       /\ requests' = requests + 1
       /\ UNCHANGED <<db_sessions, json_file, app_accepted>>
       /\ UNCHANGED counterVars

\* index.py, GET /api/rankings
IndexGetRankings ==
    LET rows == LoadActualData(data_store)
    IN /\ requests < MaxRequests
       /\ data_store' = rows
       /\ response' = RankingsResponse("index", IndexRankings(rows))
       /\ requests' = requests + 1
       /\ UNCHANGED <<db_sessions, json_file, app_accepted, index_accepted>>
       /\ UNCHANGED counterVars

\* index.py, GET /api/rankings/user/<username>
IndexGetUserStats(username) ==
    LET rows == LoadActualData(data_store)
    IN /\ requests < MaxRequests
       /\ data_store' = rows
       /\ response' = UserStatsResponse("index", rows, username)
       /\ requests' = requests + 1
       /\ UNCHANGED <<db_sessions, json_file, app_accepted, index_accepted>>
       /\ UNCHANGED counterVars

\* index.py, GET /api/stats
IndexGetGlobalStats ==
    LET rows == LoadActualData(data_store)
    IN /\ requests < MaxRequests
       /\ data_store' = rows
       /\ response' = GlobalStatsResponse("index", rows)
       /\ requests' = requests + 1
       /\ UNCHANGED <<db_sessions, json_file, app_accepted, index_accepted>>
       /\ UNCHANGED counterVars

NextApi ==
    \/ \E u \in FileUsers : WriteResultsFile(u)
    \/ \E body \in Bodies : AppSubmitSession(body)
    \/ AppGetRankings
    \/ \E u \in QueryNames : AppGetUserStats(u)
    \/ AppGetGlobalStats
    \/ \E body \in Bodies : IndexSubmitSession(body)
    \/ IndexGetRankings
    \/ \E u \in QueryNames : IndexGetUserStats(u)
    \/ IndexGetGlobalStats

\* The two services and the results file, the counter left as constructed.
SpecApi == Init /\ [][NextApi]_vars

(***************************************************************************)
(* Properties                                                              *)
(***************************************************************************)
BothPresent == left_hand_y # None /\ right_hand_y # None

\* s is a subsequence of t: the elements of s occur in t in the same order.
RECURSIVE IsSubsequence(_, _)
IsSubsequence(s, t) ==
    IF s = <<>> THEN TRUE
    ELSE IF t = <<>> THEN FALSE
    ELSE IF Head(s) = Head(t) THEN IsSubsequence(Tail(s), Tail(t))
    ELSE IsSubsequence(s, Tail(t))

\* C1: with no reset in between, crossing_count never decreases and grows by
\* at most 1 per detection call (one frame); the only operation that lowers
\* crossing_count is reset_counter.
C1_MonotonicCount ==
    [][ /\ (lastOp' = "frame" =>
               crossing_count' \in {crossing_count, crossing_count + 1})
        /\ (lastOp' = "save" => crossing_count' = crossing_count)
        /\ (crossing_count' < crossing_count => lastOp' = "reset") ]_vars

\* Two events were accepted in one session, the second by the last frame.
C1_Witness ==
    /\ lastOp = "frame"
    /\ crossing_detected
    /\ crossing_count = 2

\* C2: any two events accepted in the same session are more than the cooldown
\* apart, and a candidate event exactly one cooldown after the last accepted
\* event is not accepted.
C2_CooldownExclusion ==
    /\ [](\A i, j \in DOMAIN accepted :
             i < j => accepted[j] - accepted[i] > crossing_cooldown)
    /\ [][ (/\ lastOp' = "frame"
            /\ accepted # <<>>
            /\ now' - accepted[Len(accepted)] = crossing_cooldown)
           => (~crossing_detected' /\ accepted' = accepted) ]_vars

\* Two events were accepted just over one cooldown apart, and then a frame in
\* which a hand fell below the other, well separated, exactly one cooldown
\* after the second event, was not accepted.
C2_Witness ==
    /\ Len(accepted) = 2
    /\ accepted[2] - accepted[1] = crossing_cooldown + 1
    /\ lastOp = "frame"
    /\ now - accepted[2] = crossing_cooldown
    /\ BothPresent
    /\ Abs(left_hand_y - right_hand_y) > min_crossing_distance
    /\ HandFellBelow(left_hand_y, right_hand_y, previous_left_y, previous_right_y)
    /\ ~crossing_detected

\* C3: a frame in which both hands are present and at most
\* min_crossing_distance apart (equality included) accepts no event, whatever
\* the previous positions and the cooldown state are.
C3_MinimumSeparation ==
    [][ (/\ lastOp' = "frame"
         /\ left_hand_y' # None
         /\ right_hand_y' # None
         /\ Abs(left_hand_y' - right_hand_y') <= min_crossing_distance)
        => (/\ ~crossing_detected'
            /\ crossing_count' = crossing_count
            /\ last_crossing_time' = last_crossing_time
            /\ accepted' = accepted) ]_vars

\* A frame with the hands exactly min_crossing_distance apart, the cooldown
\* long over and a hand having just fallen below the other: no event.
C3_Witness ==
    /\ lastOp = "frame"
    /\ BothPresent
    /\ Abs(left_hand_y - right_hand_y) = min_crossing_distance
    /\ previous_left_y # None /\ previous_right_y # None
    /\ HandFellBelow(left_hand_y, right_hand_y, previous_left_y, previous_right_y)
    /\ CooldownPassed(now, last_crossing_time)
    /\ ~crossing_detected

\* C4: crossing_count is the number of events accepted in the session, and
\* count_timestamps is a subsequence of their timestamps, in the same order
\* and never longer than crossing_count.
C4_CountAndWindow ==
    /\ crossing_count = Len(accepted)
    /\ Len(count_timestamps) <= crossing_count
    /\ IsSubsequence(count_timestamps, accepted)

\* Two events accepted, the older one pruned from the window, and a frame
\* that accepted nothing since.
C4_Witness ==
    /\ crossing_count = 2
    /\ count_timestamps = <<accepted[2]>>
    /\ lastOp = "frame"
    /\ ~crossing_detected

EmptyHistory == [left |-> <<>>, right |-> <<>>]

\* C5: after reset_counter the count is 0, the timestamp window is empty and
\* the rate is 0.0, both when queried at the reset instant and when
\* save_results queries it next at any later clock value; a second reset at
\* the same clock value leaves the object exactly as the first left it.
C5_ResetIdempotent ==
    [][ /\ (lastOp' = "reset" =>
               /\ crossing_count' = 0
               /\ count_timestamps' = <<>>
               /\ GetCountsPerMinute(count_timestamps', now', start_time') = Zero)
        /\ (lastOp = "reset" /\ lastOp' = "save" => counts_per_minute' = Zero)
        /\ (lastOp = "reset" /\ lastOp' = "reset" /\ now' = now =>
               objectState' = objectState) ]_vars

\* reset_counter was called twice in a row after a frame that accepted an
\* event (the only frame so far: it is the one the history remembers).
C5_Witness ==
    /\ lastOp = "reset"
    /\ prevOp = "reset"
    /\ ops = 3
    /\ crossing_detected
    /\ crossing_count = 0

\* C6 as claimed: reset_counter clears the position history and the
\* previous-position memory, so the frame after a reset sees no previous
\* positions.
C6_ResetClearsPositions ==
    [][ /\ (lastOp' = "reset" =>
               /\ hand_history' = EmptyHistory
               /\ previous_left_y' = None
               /\ previous_right_y' = None)
        /\ (lastOp = "reset" /\ lastOp' = "frame" =>
               previous_left_y' = None /\ previous_right_y' = None) ]_vars

\* C6 as amended: reset_counter leaves the position history and the current
\* and previous positions unchanged, and the frame after a reset is compared
\* against the last sample seen before the reset.
C6_ResetKeepsPositions ==
    [][ /\ (lastOp' = "reset" =>
               UNCHANGED <<hand_history, left_hand_y, right_hand_y,
                           previous_left_y, previous_right_y>>)
        /\ (lastOp = "reset" /\ lastOp' = "frame" =>
               /\ previous_left_y' = left_hand_y
               /\ previous_right_y' = right_hand_y
               /\ crossing_detected' =
                     (/\ BothPresent'
                      /\ SufficientSeparation(left_hand_y', right_hand_y')
                      /\ HandFellBelow(left_hand_y', right_hand_y',
                                       left_hand_y, right_hand_y))) ]_vars

\* A frame right after a reset, with both hands present before and after the
\* reset in the same far-apart order: compared against the pre-reset sample,
\* it accepts no event although no event has been accepted since the reset.
C6_Witness ==
    /\ lastOp = "frame"
    /\ prevOp = "reset"
    /\ previous_left_y # None /\ previous_right_y # None
    /\ BothPresent
    /\ SufficientSeparation(left_hand_y, right_hand_y)
    /\ crossing_count = 0
    /\ ~crossing_detected

\* The number of events accepted in this session with a timestamp > now - 60 s.
AcceptedInWindow ==
    Cardinality({i \in DOMAIN accepted : accepted[i] > now - Window})

\* C7: once now - start_time >= 60 s, the rate returned equals the number of
\* events accepted in the session with timestamp t > now - 60 s (an event
\* exactly 60 s old is excluded).
C7_RateAfterWarmUp ==
    (lastOp \in {"frame", "save"} /\ now - start_time >= Window)
        => counts_per_minute = [num |-> AcceptedInWindow, den |-> 1]

\* Two events accepted, the first exactly 60 s ago, the second more recent:
\* the rate is 1.
C7_Witness ==
    /\ lastOp \in {"frame", "save"}
    /\ now - start_time >= Window
    /\ Len(accepted) = 2
    /\ accepted[1] = now - Window
    /\ accepted[2] > now - Window
    /\ counts_per_minute = [num |-> 1, den |-> 1]

\* C8: during warm-up (0 < now - start_time < 60 s) with a non-empty pruned
\* window the rate returned is len(window) / elapsed * 60, elapsed in
\* seconds; one event with 15 s elapsed gives 4.0.
C8_WarmUpExtrapolation ==
    LET elapsed == now - start_time
    IN (/\ lastOp \in {"frame", "save"}
        /\ 0 < elapsed /\ elapsed < Window
        /\ count_timestamps # <<>>)
       => /\ counts_per_minute.den > 0
          /\ counts_per_minute.num * elapsed =
                Len(count_timestamps) * WindowSeconds * TicksPerSecond
                    * counts_per_minute.den
          /\ (Len(count_timestamps) = 1 /\ elapsed = 15 * TicksPerSecond
                 => counts_per_minute = [num |-> 4, den |-> 1])

\* One accepted event and a rate query 15 s into the session: 4.0.
C8_Witness ==
    /\ lastOp \in {"frame", "save"}
    /\ now - start_time = 15 * TicksPerSecond
    /\ Len(count_timestamps) = 1
    /\ crossing_count = 1
    /\ counts_per_minute = [num |-> 4, den |-> 1]

\* C9: the rate returned is 0.0 whenever the pruned window is empty and
\* whenever now - start_time <= 0; no rate is the result of a division by
\* zero, and none is negative.
C9_RateZeroGuards ==
    /\ counts_per_minute.den > 0
    /\ counts_per_minute.num >= 0
    /\ lastOp \in {"frame", "save"} =>
          /\ (count_timestamps = <<>> => counts_per_minute = Zero)
          /\ (now - start_time <= 0 => counts_per_minute = Zero)

\* A rate query with an event in the window and the clock behind the session
\* start: 0.0.
C9_Witness ==
    /\ lastOp \in {"frame", "save"}
    /\ count_timestamps # <<>>
    /\ now - start_time < 0
    /\ counts_per_minute = Zero

\* C10: the rate query of save_results changes nothing of the object but
\* count_timestamps, from which it removes exactly the timestamps not within
\* the trailing 60 s; the outcome of detect_crossing on any later sample is
\* the same as without the query; and a query that repeats the preceding one
\* at the same clock value returns the same rate and leaves the same window.
C10_RateQueryFrame ==
    [][ lastOp' = "save" =>
          /\ UNCHANGED <<crossing_count, last_crossing_time, start_time,
                         left_hand_y, right_hand_y, previous_left_y,
                         previous_right_y, hand_history, accepted>>
          /\ LET Kept(t) == t > now' - Window
             IN count_timestamps' = SelectSeq(count_timestamps, Kept)
          /\ \A l \in YValues, r \in YValues, d \in TimeSteps :
                DetectCrossing(l, r, left_hand_y', right_hand_y', now' + d,
                               last_crossing_time')
                = DetectCrossing(l, r, left_hand_y, right_hand_y, now' + d,
                                 last_crossing_time)
          /\ (lastOp \in {"frame", "save"} /\ now' = now =>
                 /\ counts_per_minute' = counts_per_minute
                 /\ count_timestamps' = count_timestamps) ]_vars

\* Two rate queries in a row after a frame that accepted an event; the event
\* is now exactly 60 s old and has been pruned, the count is still 1.
C10_Witness ==
    /\ lastOp = "save"
    /\ prevOp = "save"
    /\ crossing_count = 1
    /\ accepted = <<now - Window>>
    /\ count_timestamps = <<>>
    /\ last_crossing_time = now - Window

\* C11: a frame in which the left or the right hand is absent accepts no event
\* and leaves the count and the last-event time unchanged and adds no
\* timestamp (the window is only pruned by the frame's rate query); the absent
\* value becomes the previous position of the next frame, which therefore has
\* no valid previous order.
C11_AbsentData ==
    [][ /\ (lastOp' = "frame" /\ (left_hand_y' = None \/ right_hand_y' = None))
           => /\ ~crossing_detected'
              /\ crossing_count' = crossing_count
              /\ last_crossing_time' = last_crossing_time
              /\ accepted' = accepted
              /\ LET Kept(t) == t > now' - Window
                 IN count_timestamps' = SelectSeq(count_timestamps, Kept)
        /\ (lastOp' = "frame" /\ (left_hand_y = None \/ right_hand_y = None))
           => /\ previous_left_y' = left_hand_y
              /\ previous_right_y' = right_hand_y
              /\ (previous_left_y' = None \/ previous_right_y' = None) ]_vars

\* Three frames, the second without the right hand: it was not counted, and
\* the third, with both hands again, had no previous order and was counted.
C11_Witness ==
    /\ lastOp = "frame"
    /\ ops = 3
    /\ previous_left_y # None
    /\ previous_right_y = None
    /\ BothPresent
    /\ crossing_detected
    /\ crossing_count = 1
    /\ Len(hand_history.right) = 2

\* C12: with both previous positions present (and the separation and cooldown
\* guards passed), a frame accepts an event exactly when the left hand is now
\* below the right (left_y > right_y) and was at or above it before, or the
\* right hand is now below the left and was at or above it before.
C12_AsymmetricFall ==
    [][ (/\ lastOp' = "frame"
         /\ BothPresent'
         /\ previous_left_y' # None
         /\ previous_right_y' # None
         /\ Abs(left_hand_y' - right_hand_y') > min_crossing_distance
         /\ now' - last_crossing_time > crossing_cooldown)
        => (crossing_detected' <=>
               \/ (/\ left_hand_y' > right_hand_y'
                   /\ previous_left_y' <= previous_right_y')
               \/ (/\ right_hand_y' > left_hand_y'
                   /\ previous_right_y' <= previous_left_y')) ]_vars

\* The hands were level in the previous frame and the left hand is now far
\* below the right: counted.
C12_Witness ==
    /\ lastOp = "frame"
    /\ BothPresent
    /\ previous_left_y # None
    /\ previous_left_y = previous_right_y
    /\ left_hand_y > right_hand_y
    /\ crossing_detected

\* C13: a frame with both hands present that follows a frame in which a hand
\* was absent (or is the first frame) accepts an event from the current order
\* alone, exactly when the separation and cooldown guards pass, also when the
\* order is the one the hands had when both were last visible.
C13_Bootstrap ==
    [][ (/\ lastOp' = "frame"
         /\ BothPresent'
         /\ (previous_left_y' = None \/ previous_right_y' = None))
        => (crossing_detected' <=>
               /\ Abs(left_hand_y' - right_hand_y') > min_crossing_distance
               /\ now' - last_crossing_time > crossing_cooldown) ]_vars

\* Three frames: both hands far apart (counted), no hand, both hands at the
\* same positions as in the first frame (counted again).
C13_Witness ==
    /\ lastOp = "frame"
    /\ ops = 3
    /\ previous_left_y = None
    /\ previous_right_y = None
    /\ BothPresent
    /\ hand_history.left = <<left_hand_y, left_hand_y>>
    /\ hand_history.right = <<right_hand_y, right_hand_y>>
    /\ crossing_detected
    /\ crossing_count = 2

Sign(x) == IF x > 0 THEN 1 ELSE IF x < 0 THEN -1 ELSE 0

LastN(s, n) == IF Len(s) <= n THEN s ELSE SubSeq(s, Len(s) - n + 1, Len(s))

\* C16: each history buffer holds at most history_length values; a frame with
\* a reading of a hand leaves in that hand's buffer the last history_length
\* of (old buffer, new reading), in arrival order, and a frame without a
\* reading of a hand leaves that buffer as it was; nothing else writes the
\* buffers.  Hence each buffer is always the most recent non-absent readings
\* of its hand.
C16_PositionHistory ==
    /\ [](/\ Len(hand_history.left) <= history_length
          /\ Len(hand_history.right) <= history_length)
    /\ [][ /\ lastOp' = "frame" =>
              /\ hand_history'.left =
                    IF left_hand_y' = None THEN hand_history.left
                    ELSE LastN(hand_history.left \o <<left_hand_y'>>, history_length)
              /\ hand_history'.right =
                    IF right_hand_y' = None THEN hand_history.right
                    ELSE LastN(hand_history.right \o <<right_hand_y'>>, history_length)
           /\ lastOp' # "frame" => hand_history' = hand_history ]_vars

\* Three frames, all with the left hand (its first reading has been evicted:
\* the buffer holds the second and the third), the second without the right
\* hand (its buffer holds the first and the third reading).
C16_Witness ==
    /\ ops = 3
    /\ lastOp = "frame"
    /\ crossing_count = 2
    /\ previous_left_y # None
    /\ previous_right_y = None
    /\ BothPresent
    /\ hand_history.left = <<previous_left_y, left_hand_y>>
    /\ Len(hand_history.right) = 2
    /\ hand_history.right[2] = right_hand_y

\* C17: every frame stores the positions of the frame before it as the
\* previous positions, whether the frame is rejected by the separation guard,
\* suppressed by the cooldown or accepted; no other operation writes the
\* current or the previous positions.  So at each detection the previous
\* positions are exactly the sample of the preceding frame.
C17_PreviousIsPrecedingSample ==
    [][ /\ lastOp' = "frame" =>
            /\ previous_left_y' = left_hand_y
            /\ previous_right_y' = right_hand_y
        /\ lastOp' # "frame" =>
            UNCHANGED <<left_hand_y, right_hand_y, previous_left_y, previous_right_y>>
      ]_vars

\* A frame that shows a fall at sufficient separation but is suppressed by
\* the cooldown; the previous positions are those of the frame before, which
\* differ from the current ones.
C17_Witness ==
    /\ lastOp = "frame"
    /\ prevOp = "frame"
    /\ BothPresent
    /\ previous_left_y # None
    /\ previous_right_y # None
    /\ SufficientSeparation(left_hand_y, right_hand_y)
    /\ HandFellBelow(left_hand_y, right_hand_y, previous_left_y, previous_right_y)
    /\ ~CooldownPassed(now, last_crossing_time)
    /\ ~crossing_detected
    /\ previous_left_y # left_hand_y
    /\ hand_history.left = <<previous_left_y, left_hand_y>>
    /\ hand_history.right = <<previous_right_y, right_hand_y>>

\* The timestamps of stamps that the rate query of a frame at time t retains.
StillInWindow(stamps, t) ==
    LET Retained(s) == t - s < Window
    IN SelectSeq(stamps, Retained)

\* C18: a frame reports an event exactly when it increments crossing_count.
\* When it does, last_crossing_time becomes the frame's time and that time is
\* appended as the last element of count_timestamps; when it does not (no
\* event determined, or one suppressed by the cooldown), crossing_count and
\* last_crossing_time are unchanged and nothing is added to count_timestamps.
\* (The rate query of the same frame drops the timestamps that left the
\* window.)
C18_ReportIffCounted ==
    [][ lastOp' = "frame" =>
          /\ crossing_detected' <=> (crossing_count' = crossing_count + 1)
          /\ crossing_detected' =>
                /\ last_crossing_time' = now'
                /\ count_timestamps' = StillInWindow(count_timestamps \o <<now'>>, now')
                /\ count_timestamps' # <<>>
                /\ count_timestamps'[Len(count_timestamps')] = now'
          /\ ~crossing_detected' =>
                /\ crossing_count' = crossing_count
                /\ last_crossing_time' = last_crossing_time
                /\ count_timestamps' = StillInWindow(count_timestamps, now')
      ]_vars

\* A second event has just been accepted: its time is the last of the two
\* recorded timestamps and the last crossing time.
C18_Witness ==
    /\ lastOp = "frame"
    /\ crossing_detected
    /\ crossing_count = 2
    /\ Len(count_timestamps) = 2
    /\ count_timestamps[1] < now
    /\ count_timestamps[2] = now
    /\ last_crossing_time = now

\* s is what remains of t after dropping a prefix of it.
IsSuffix(s, t) ==
    /\ Len(s) <= Len(t)
    /\ s = SubSeq(t, Len(t) - Len(s) + 1, Len(t))

StrictlyIncreasing(s) == \A i, j \in DOMAIN s : i < j => s[i] < s[j]

\* C19: under a clock that never runs backwards count_timestamps is strictly
\* increasing in every reachable state; it is the accepted events of the
\* session less a prefix, and the filter of a rate query at any later time
\* again removes only a prefix of it.
C19_PruningTrimsPrefix ==
    /\ StrictlyIncreasing(count_timestamps)
    /\ IsSuffix(count_timestamps, accepted)
    /\ \A d \in TimeSteps :
          IsSuffix(PruneTimestamps(count_timestamps, now + d), count_timestamps)

\* Three events were accepted; the first has left the window, the other two
\* are retained in order.
C19_Witness ==
    /\ Len(accepted) = 3
    /\ count_timestamps = <<accepted[2], accepted[3]>>
    /\ accepted[1] < accepted[2]
    /\ accepted[2] < accepted[3]
    /\ accepted[3] = now

\* C20: after __init__ or reset_counter the last crossing time stands for
\* "never": a frame that shows a fall at sufficient separation while no event
\* has been accepted in the session is accepted, whatever the clock reads.
C20_FirstEventAccepted ==
    [][ ( /\ lastOp' = "frame"
          /\ accepted = <<>>
          /\ BothPresent'
          /\ SufficientSeparation(left_hand_y', right_hand_y')
          /\ HandFellBelow(left_hand_y', right_hand_y',
                           previous_left_y', previous_right_y') )
        => crossing_detected' ]_vars

\* A frame shows a fall at sufficient separation, no event was ever accepted
\* in the session, and the frame is not counted.
C20_Witness ==
    /\ lastOp = "frame"
    /\ accepted = <<>>
    /\ crossing_count = 0
    /\ last_crossing_time = 0
    /\ BothPresent
    /\ SufficientSeparation(left_hand_y, right_hand_y)
    /\ HandFellBelow(left_hand_y, right_hand_y, previous_left_y, previous_right_y)
    /\ ~crossing_detected
    /\ now <= crossing_cooldown

\* C24: a frame that shows both hands in the same strict order as the frame
\* before it (which also showed both) is never an event, however long the
\* order is held and however long ago the cooldown expired.
C24_HeldOrderNoEvent ==
    ( /\ lastOp = "frame"
      /\ BothPresent
      /\ previous_left_y # None
      /\ previous_right_y # None
      /\ \/ (left_hand_y > right_hand_y /\ previous_left_y > previous_right_y)
         \/ (right_hand_y > left_hand_y /\ previous_right_y > previous_left_y) )
    => ~crossing_detected

\* The hands are held far apart in the same order as in the frame before,
\* the last accepted event is more than a quarter of a minute old, and the
\* frame is not counted.
C24_Witness ==
    /\ lastOp = "frame"
    /\ prevOp = "frame"
    /\ crossing_count = 1
    /\ left_hand_y = FarY
    /\ right_hand_y = 0
    /\ previous_left_y = FarY
    /\ previous_right_y = 0
    /\ SufficientSeparation(left_hand_y, right_hand_y)
    /\ now - last_crossing_time >= 15 * TicksPerSecond
    /\ CooldownPassed(now, last_crossing_time)
    /\ ~crossing_detected

\* C25: during warm-up (now - start_time < 60 s, the clock never running
\* backwards) no timestamp has been pruned: count_timestamps holds every
\* event accepted in the session, its length is crossing_count, and the rate
\* last returned by a frame or a save is crossing_count / elapsed * 60
\* (for elapsed > 0, where that quotient exists).
C25_WarmUpNothingPruned ==
    LET elapsed == now - start_time
    IN elapsed < Window =>
          /\ count_timestamps = accepted
          /\ Len(count_timestamps) = crossing_count
          /\ (lastOp \in {"frame", "save"} /\ elapsed > 0) =>
                /\ counts_per_minute.den > 0
                /\ counts_per_minute.num * elapsed =
                      crossing_count * WindowSeconds * TicksPerSecond
                          * counts_per_minute.den

\* Two events, the first at the start of the session and the second one tick
\* short of 60 s later: both are retained and the rate is 2 / 59.95 * 60.
C25_Witness ==
    /\ lastOp = "frame"
    /\ crossing_count = 2
    /\ now - start_time = Window - 1
    /\ count_timestamps = <<start_time, now>>
    /\ counts_per_minute = [num |-> 2 * Window, den |-> Window - 1]

\* C23: a crossing that the cooldown suppressed is lost, not deferred.  The
\* frame that showed it became the previous sample, so while the following
\* frames show both hands in the order it produced, none of them is an event
\* and the count stays as it is, also once the cooldown has expired.
C23_SuppressedCrossingLost ==
    /\ [](suppressed # 0 =>
             /\ BothPresent
             /\ StrictOrder(left_hand_y, right_hand_y) = suppressed)
    /\ [][ ( /\ lastOp' = "frame"
             /\ suppressed # 0
             /\ BothPresent'
             /\ StrictOrder(left_hand_y', right_hand_y') = suppressed )
           => /\ ~crossing_detected'
              /\ crossing_count' = crossing_count
              /\ last_crossing_time' = last_crossing_time
              /\ suppressed' = suppressed ]_vars

\* After one accepted event a crossing was suppressed; the frame that
\* follows shows the same order far apart with the cooldown expired, and is
\* not counted.
C23_Witness ==
    /\ lastOp = "frame"
    /\ suppressed # 0
    /\ crossing_count = 1
    /\ BothPresent
    /\ previous_left_y # None
    /\ previous_right_y # None
    /\ StrictOrder(previous_left_y, previous_right_y) = suppressed
    /\ SufficientSeparation(left_hand_y, right_hand_y)
    /\ CooldownPassed(now, last_crossing_time)
    /\ ~crossing_detected

\* A step in which app.py answers a read (the response is a new one, and not
\* the answer to a submit).
AppReadStep ==
    /\ requests' = requests + 1
    /\ json_file' = json_file
    /\ response'.api = "app"
    /\ response'.endpoint \in {"rankings", "user", "stats"}

\* The sessions `given` are all part of what the read response `r` reports.
IncludedIn(given, r) ==
    \A i \in DOMAIN given :
        LET s == given[i]
            same == SessionsOf(given, s.username)
        IN CASE r.endpoint = "rankings" ->
                  \E row \in r.rankings :
                      /\ row.username = s.username
                      /\ row.best_rate >= s.counts_per_minute
                      /\ row.best_crossings >= s.total_crossings
                      /\ row.total_sessions >= Len(same)
             [] r.endpoint = "stats" ->
                  /\ r.total_sessions >= Len(given)
                  /\ r.global_best_rate >= s.counts_per_minute
                  /\ r.global_best_crossings >= s.total_crossings
             [] r.endpoint = "user" ->
                  r.username = s.username =>
                      /\ r.status = 200
                      /\ r.total_sessions >= Len(same)
                      /\ r.best_rate >= s.counts_per_minute

\* C21: every session app.py accepted with 201 is part of what every later
\* GET /api/rankings, /api/stats and /api/rankings/user/<username> of app.py
\* returns, whatever the order of submits, reads and writes of the file.
C21_SubmittedSessionsReturned ==
    [][AppReadStep => IncludedIn(app_accepted, response')]_vars

\* app.py accepted a session of user zed, and its answer to a later
\* GET /api/rankings has no row for zed: the table holds the file's sessions.
C21_Witness ==
    /\ response.api = "app"
    /\ response.endpoint = "rankings"
    /\ json_file.exists
    /\ Len(app_accepted) = 1
    /\ app_accepted[1].username = "zed"
    /\ db_sessions = json_file.sessions
    /\ \A row \in response.rankings : row.username # "zed"
    /\ response.total_users = 1

\* A step in which one of the services answers a POST /api/submit.
SubmitStep ==
    /\ requests' = requests + 1
    /\ json_file' = json_file
    /\ response'.endpoint = "submit"

\* The body lacks at least one of the four required fields.
LacksRequiredField(body) ==
    \/ body.kind = "null"
    \/ ~(RequiredFieldSet \subseteq body.keys)

\* C22: in both services a POST /api/submit whose body lacks one of
\* username, total_crossings, counts_per_minute, session_duration_seconds is
\* answered 400 and changes no stored session; a body with all four is
\* answered 201 and adds exactly one session.
C22_SubmitValidation ==
    [][ SubmitStep =>
          LET body == response'.request
              before == IF response'.api = "app" THEN db_sessions ELSE data_store
              after == IF response'.api = "app" THEN db_sessions' ELSE data_store'
          IN IF LacksRequiredField(body)
             THEN response'.status = 400 /\ after = before
             ELSE /\ response'.status = 201
                  /\ Len(after) = Len(before) + 1
                  /\ SubSeq(after, 1, Len(before)) = before
      ]_vars

\* A POST with the body null has been answered 500.
C22_Witness ==
    /\ response.endpoint = "submit"
    /\ response.request = NullBody
    /\ response.status = 500
    /\ requests = 1
    /\ db_sessions = <<>>
    /\ data_store = <<>>

\* A step in which index.py answers a read.
IndexReadStep ==
    /\ requests' = requests + 1
    /\ json_file' = json_file
    /\ response'.api = "index"
    /\ response'.endpoint \in {"rankings", "user", "stats"}
    /\ index_accepted' = index_accepted

\* C26: index.py loads the ten seed sessions only in a read that finds
\* data_store empty.  So data_store is either the accepted submissions alone
\* or the seed sessions followed by them; a read of the empty store leaves the
\* seed sessions in it, and once a submit was accepted into a store without
\* the seed sessions no later request brings them in.
C26_SeedDependsOnOrder ==
    /\ [](\/ data_store = index_accepted
          \/ data_store = SeedSessions \o index_accepted)
    /\ [][ /\ (IndexReadStep /\ data_store = <<>>) => data_store' = SeedSessions
           /\ (IndexReadStep /\ data_store # <<>>) => data_store' = data_store
           /\ (data_store = index_accepted /\ index_accepted # <<>>)
                 => data_store' = index_accepted'
           /\ ~IndexReadStep =>
                 \/ data_store' = data_store
                 \/ /\ index_accepted' # index_accepted
                    /\ data_store' = data_store \o <<index_accepted'[Len(index_accepted')]>>
         ]_vars

\* A submit was accepted before the first read: the read that follows
\* reports that one session and none of the seed sessions.
C26_Witness ==
    /\ response.api = "index"
    /\ response.endpoint = "stats"
    /\ response.total_sessions = 1
    /\ Len(index_accepted) = 1
    /\ data_store = index_accepted
    /\ \A i \in DOMAIN SeedSessions : SeedSessions[i] # data_store[1]

====
